---- MODULE Spec2Model ----
(***************************************************************************)
(* Model of the gaemboi CPU core (src/src/cpu): register file, memory,     *)
(* opcode decoder, operand fetch, executor, step and run loop.             *)
(***************************************************************************)
EXTENDS Integers, Naturals, Sequences, FiniteSets, TLC

VARIABLES
    registers,      \* Cpu.registers : the raw register file
    mem,            \* Cpu.mem : the non-zero bytes of the memory array
    overflowChecks, \* TRUE in a build with arithmetic overflow checks (debug)
    mode,           \* "idle", "running" (inside run()), "returned", "panicked"
    nseed,          \* number of seeding calls made by the host so far
    nops,           \* number of operations (steps, fetches) performed so far
    last            \* record of the last operation and the state it started in

vars == <<registers, mem, overflowChecks, mode, nseed, nops, last>>

----------------------------------------------------------------------------
(* Bounds of the model *)

MaxSeeds == 2
MaxOps == 2

(* Program constants *)

MEM_SIZE == 65535
HALT_ADDR == 256
HALT_OPCODE == 118

----------------------------------------------------------------------------
(* Register identifiers *)

Register8 == {"A", "F", "B", "C", "D", "E", "H", "L"}
Register16 == {"AF", "BC", "DE", "HL", "SP", "PC"}

(* mutant: the registers start as the boot ROM of the console leaves them *)
Registers_default_post_boot ==
    [a |-> 0, f |-> 0, b |-> 0, c |-> 0, d |-> 0, e |-> 0, h |-> 0, l |-> 0,
     sp |-> 65534, pc |-> 256]

Registers_default ==
    [a |-> 0, f |-> 0, b |-> 0, c |-> 0, d |-> 0, e |-> 0, h |-> 0, l |-> 0,
     sp |-> 0, pc |-> 0]

(* field of the register file behind an 8-bit identifier *)
field8(r) ==
    CASE r = "A" -> "a" [] r = "F" -> "f" [] r = "B" -> "b" [] r = "C" -> "c"
      [] r = "D" -> "d" [] r = "E" -> "e" [] r = "H" -> "h" [] r = "L" -> "l"

(* high and low fields of a register pair *)
high_reg(p) ==
    CASE p = "AF" -> "a" [] p = "BC" -> "b" [] p = "DE" -> "d" [] p = "HL" -> "h"

low_reg(p) ==
    CASE p = "AF" -> "f" [] p = "BC" -> "c" [] p = "DE" -> "e" [] p = "HL" -> "l"

plain16(p) == IF p = "SP" THEN "sp" ELSE "pc"

IsPair(p) == p \in {"AF", "BC", "DE", "HL"}

fetch8(rg, r) == rg[field8(r)]

(* mutant: the F arm of the match writes through the A register *)
write8_wrong_arm(rg, r, v) ==
    IF r = "F" THEN [rg EXCEPT !.a = v] ELSE [rg EXCEPT ![field8(r)] = v]

write8(rg, r, v) == [rg EXCEPT ![field8(r)] = v]

(* mutant: the pair is read with the second-named register as high byte *)
fetch16_low_first(rg, p) ==
    IF IsPair(p) THEN rg[low_reg(p)] * 256 + rg[high_reg(p)]
    ELSE rg[plain16(p)]

fetch16(rg, p) ==
    IF IsPair(p) THEN rg[high_reg(p)] * 256 + rg[low_reg(p)]
    ELSE rg[plain16(p)]

(* mutant: the low byte goes to the first-named register of the pair *)
write16_low_first(rg, p, v) ==
    IF IsPair(p)
    THEN [rg EXCEPT ![high_reg(p)] = v % 256, ![low_reg(p)] = v \div 256]
    ELSE [rg EXCEPT ![plain16(p)] = v]

write16(rg, p, v) ==
    IF IsPair(p)
    THEN [rg EXCEPT ![high_reg(p)] = v \div 256, ![low_reg(p)] = v % 256]
    ELSE [rg EXCEPT ![plain16(p)] = v]

(* Outcome of a register operation that may overflow: the new register     *)
(* file, or a panic in a build with overflow checks.                        *)
RegOk(rg) == [panic |-> FALSE, regs |-> rg]
RegPanic(rg) == [panic |-> TRUE, regs |-> rg]

inc16(rg, p, checks) ==
    LET value == fetch16(rg, p) IN
    IF value + 1 > 65535
    THEN IF checks THEN RegPanic(rg) ELSE RegOk(write16(rg, p, 0))
    ELSE RegOk(write16(rg, p, value + 1))

dec16(rg, p, checks) ==
    LET value == fetch16(rg, p) IN
    IF value - 1 < 0
    THEN IF checks THEN RegPanic(rg) ELSE RegOk(write16(rg, p, 65535))
    ELSE RegOk(write16(rg, p, value - 1))

inc8(rg, r, checks) ==
    LET value == fetch8(rg, r) IN
    IF value + 1 > 255
    THEN IF checks THEN RegPanic(rg) ELSE RegOk(write8(rg, r, 0))
    ELSE RegOk(write8(rg, r, value + 1))

dec8(rg, r, checks) ==
    LET value == fetch8(rg, r) IN
    IF value - 1 < 0
    THEN IF checks THEN RegPanic(rg) ELSE RegOk(write8(rg, r, 255))
    ELSE RegOk(write8(rg, r, value - 1))

(* mutant: the pair is composed with the second-named register as high byte *)
as_addr_low_first(rg, p) ==
    IF IsPair(p) THEN rg[low_reg(p)] * 256 + rg[high_reg(p)]
    ELSE rg[plain16(p)]

as_addr(rg, p) == fetch16(rg, p)

----------------------------------------------------------------------------
(* Memory: a zero-filled array of MEM_SIZE bytes; mem holds the non-zero    *)
(* cells.                                                                   *)

Memory_default == [a \in {} |-> 0]

Peek(m, a) == IF a \in DOMAIN m THEN m[a] ELSE 0

Poke(m, a, v) ==
    IF v = 0 THEN [x \in (DOMAIN m) \ {a} |-> m[x]]
    ELSE [x \in (DOMAIN m) \cup {a} |-> IF x = a THEN v ELSE m[x]]

RECURSIVE PokeAll(_, _, _)
PokeAll(m, a, bytes) ==
    IF bytes = << >> THEN m
    ELSE PokeAll(Poke(m, a, Head(bytes)), a + 1, Tail(bytes))

MemOk(m, v) == [ok |-> TRUE, mem |-> m, val |-> v]
MemErr(m) == [ok |-> FALSE, mem |-> m, val |-> 0]

(* mutant: every 16 bit address can be read *)
read_byte_full_space(m, src) ==
    IF src <= 65535 THEN MemOk(m, Peek(m, src)) ELSE MemErr(m)

read_byte(m, src) ==
    IF src < MEM_SIZE THEN MemOk(m, Peek(m, src)) ELSE MemErr(m)

write_byte(m, dest, value) ==
    IF dest < MEM_SIZE THEN MemOk(Poke(m, dest, value), 0) ELSE MemErr(m)

mem_read(m, src, len) ==
    IF src + len <= MEM_SIZE
    THEN MemOk(m, [i \in 1..len |-> Peek(m, src + i - 1)])
    ELSE MemErr(m)

(* mutant: the copy stops one byte short of the end of the buffer *)
mem_write_short(m, dest, value) ==
    IF dest + Len(value) <= MEM_SIZE
    THEN MemOk(PokeAll(m, dest, SubSeq(value, 1, Len(value) - 1)), 0)
    ELSE MemErr(m)

(* mutant: the bounds check is made byte by byte, after the bytes that fit *)
mem_write_partial(m, dest, value) ==
    IF dest + Len(value) <= MEM_SIZE
    THEN MemOk(PokeAll(m, dest, value), 0)
    ELSE MemErr(PokeAll(m, dest, SubSeq(value, 1, MEM_SIZE - dest)))

(* mutant: the destination slice is one byte longer than the buffer *)
mem_write_wide(m, dest, value) ==
    IF dest + Len(value) <= MEM_SIZE
    THEN MemOk(PokeAll(m, dest, value \o <<0>>), 0)
    ELSE MemErr(m)

mem_write(m, dest, value) ==
    IF dest + Len(value) <= MEM_SIZE
    THEN MemOk(PokeAll(m, dest, value), 0)
    ELSE MemErr(m)

----------------------------------------------------------------------------
(* Operands and instructions (instructions.rs) *)

NoReg == "-"

Reg8(r) == [kind |-> "Reg8", reg |-> r]
Reg16(p) == [kind |-> "Reg16", reg |-> p]
Immediate8 == [kind |-> "Immediate8", reg |-> NoReg]
Immediate16 == [kind |-> "Immediate16", reg |-> NoReg]
NoOperand == [kind |-> "None", reg |-> NoReg]

Operand ==
    {Reg8(r) : r \in Register8} \cup {Reg16(p) : p \in Register16}
        \cup {Immediate8, Immediate16}

R_TABLE ==
    <<Reg8("B"), Reg8("C"), Reg8("D"), Reg8("E"), Reg8("H"), Reg8("L"),
      Reg16("HL"), Reg8("A")>>

(* mutant: the last entry of the register-pair table is PC *)
RP_TABLE_with_pc == <<Reg16("BC"), Reg16("DE"), Reg16("HL"), Reg16("PC")>>

RP_TABLE == <<Reg16("BC"), Reg16("DE"), Reg16("HL"), Reg16("SP")>>

RP2_TABLE == <<Reg16("BC"), Reg16("DE"), Reg16("HL"), Reg16("AF")>>

(* followup: "None", "Inc" or "Dec" *)
Instruction_load(src, dest, followup) ==
    [itype |-> "Load", src |-> src, dest |-> dest, followup |-> followup,
     cycles |-> 1]

Instruction_halt ==
    [itype |-> "Halt", src |-> NoOperand, dest |-> NoOperand,
     followup |-> "None", cycles |-> 1]

Instruction_nop ==
    [itype |-> "Nop", src |-> NoOperand, dest |-> NoOperand,
     followup |-> "None", cycles |-> 1]

(* Inc and Dec carry their operand in dest *)
Instruction_inc(operand) ==
    [itype |-> "Inc", src |-> NoOperand, dest |-> operand,
     followup |-> "None", cycles |-> 1]

Instruction_dec(operand) ==
    [itype |-> "Dec", src |-> NoOperand, dest |-> operand,
     followup |-> "None", cycles |-> 1]

(* Arith8 and Arith16 carry no operands; the enum has no constructor for    *)
(* them, the instruction is built with the cycle count of the others        *)
Instruction_arith8 ==
    [itype |-> "Arith8", src |-> NoOperand, dest |-> NoOperand,
     followup |-> "None", cycles |-> 1]

Instruction_arith16 ==
    [itype |-> "Arith16", src |-> NoOperand, dest |-> NoOperand,
     followup |-> "None", cycles |-> 1]

(* Result of a fallible lookup or decode *)
DecOk(v) == [ok |-> TRUE, val |-> v]
DecErr == [ok |-> FALSE, val |-> Instruction_nop]
LookupErr == [ok |-> FALSE, val |-> NoOperand]

(* mutant: the index is reduced to the size of the table instead of checked *)
from_r_table_wrapping(trip) == DecOk(R_TABLE[(trip % 8) + 1])

from_r_table(trip) ==
    IF trip + 1 \in DOMAIN R_TABLE THEN DecOk(R_TABLE[trip + 1]) ELSE LookupErr

from_rp_table(dub) ==
    IF dub + 1 \in DOMAIN RP_TABLE THEN DecOk(RP_TABLE[dub + 1]) ELSE LookupErr

from_rp2_table(dub) ==
    IF dub + 1 \in DOMAIN RP2_TABLE THEN DecOk(RP2_TABLE[dub + 1]) ELSE LookupErr

----------------------------------------------------------------------------
(* Decoder (Cpu::decode) *)

bits_x(opcode) == opcode \div 64
bits_y(opcode) == (opcode \div 8) % 8
bits_z(opcode) == opcode % 8
bits_q(opcode) == bits_y(opcode) % 2
bits_p(opcode) == bits_y(opcode) \div 2

(* mutant: the LD (HL-) arms carry the followup of the LD (HL+) arms *)
decode_indirect_dec_as_inc(p, q) ==
    LET pair == CASE p = 0 -> "BC" [] p = 1 -> "DE" [] p = 2 -> "HL" [] p = 3 -> "HL"
        followup == CASE p = 0 -> "None" [] p = 1 -> "None"
                      [] p = 2 -> "Inc" [] p = 3 -> "Inc"
    IN  IF q = 0
        THEN DecOk(Instruction_load(Reg8("A"), Reg16(pair), followup))
        ELSE DecOk(Instruction_load(Reg16(pair), Reg8("A"), followup))

(* x = 0, z = 2 : the eight indirect loads between A and (BC)/(DE)/(HL+-) *)
decode_indirect(p, q) ==
    LET pair == CASE p = 0 -> "BC" [] p = 1 -> "DE" [] p = 2 -> "HL" [] p = 3 -> "HL"
        followup == CASE p = 0 -> "None" [] p = 1 -> "None"
                      [] p = 2 -> "Inc" [] p = 3 -> "Dec"
    IN  IF q = 0
        THEN DecOk(Instruction_load(Reg8("A"), Reg16(pair), followup))
        ELSE DecOk(Instruction_load(Reg16(pair), Reg8("A"), followup))

(* mutant: q selects INC and DEC the wrong way round *)
decode_incdec16_swapped(p, q) ==
    LET rp == from_rp_table(p) IN
    IF ~rp.ok THEN DecErr
    ELSE IF q = 1 THEN DecOk(Instruction_inc(rp.val))
    ELSE DecOk(Instruction_dec(rp.val))

(* x = 0, z = 3 : 16 bit INC (q = 0) and DEC (q = 1) *)
decode_incdec16(p, q) ==
    LET rp == from_rp_table(p) IN
    IF ~rp.ok THEN DecErr
    ELSE IF q = 0 THEN DecOk(Instruction_inc(rp.val))
    ELSE DecOk(Instruction_dec(rp.val))

(* mutant: the nop optimization is missing *)
decode_ld_r_r_always_load(y, z) ==
    LET dest == from_r_table(y)
        src == from_r_table(z)
    IN  IF ~dest.ok \/ ~src.ok THEN DecErr
        ELSE DecOk(Instruction_load(src.val, dest.val, "None"))

(* mutant: source and destination are selected by the wrong fields *)
decode_ld_r_r_swapped(y, z) ==
    LET dest == from_r_table(z)
        src == from_r_table(y)
    IN  IF ~dest.ok \/ ~src.ok THEN DecErr
        ELSE IF src.val = dest.val THEN DecOk(Instruction_nop)
        ELSE DecOk(Instruction_load(src.val, dest.val, "None"))

(* x = 1 : LD r, r *)
decode_ld_r_r(y, z) ==
    LET dest == from_r_table(y)
        src == from_r_table(z)
    IN  IF ~dest.ok \/ ~src.ok THEN DecErr
        ELSE IF src.val = dest.val THEN DecOk(Instruction_nop)
        ELSE DecOk(Instruction_load(src.val, dest.val, "None"))

(* mutant: HALT is not matched before LD r, r *)
decode_x1_no_halt(y, z) == decode_ld_r_r(y, z)

(* x = 1 : HALT is matched first, then LD r, r *)
decode_x1(y, z) ==
    IF y = 6 /\ z = 6 THEN DecOk(Instruction_halt)
    ELSE decode_ld_r_r(y, z)

(* mutant: the source is the 16 bit immediate *)
decode_ld_r_d8_imm16(y) ==
    LET dest == from_r_table(y) IN
    IF ~dest.ok THEN DecErr
    ELSE DecOk(Instruction_load(Immediate16, dest.val, "None"))

(* x = 0, z = 6 : LD r, d8 *)
decode_ld_r_d8(y) ==
    LET dest == from_r_table(y) IN
    IF ~dest.ok THEN DecErr
    ELSE DecOk(Instruction_load(Immediate8, dest.val, "None"))

(* mutant: an unmatched opcode silently becomes a NOP *)
decode_unmatched_nop(opcode) == DecOk(Instruction_nop)

(* the final arm: no pattern matched *)
decode_unmatched(opcode) == DecErr

(* mutant: the decoder looks at the byte PC points at, not at its argument *)
decode_reads_memory(opcode) ==
    LET at_pc == Peek(mem, fetch16(registers, "PC"))
        x == bits_x(at_pc)
        y == bits_y(at_pc)
        z == bits_z(at_pc)
        p == bits_p(at_pc)
        q == bits_q(at_pc)
    IN  IF x = 0 /\ z = 2 THEN decode_indirect(p, q)
        ELSE IF x = 0 /\ z = 3 THEN decode_incdec16(p, q)
        ELSE IF x = 1 THEN decode_x1(y, z)
        ELSE IF x = 0 /\ z = 6 THEN decode_ld_r_d8(y)
        ELSE IF x = 0 /\ y = 0 /\ z = 0 THEN DecOk(Instruction_nop)
        ELSE decode_unmatched(at_pc)

decode(opcode) ==
    LET x == bits_x(opcode)
        y == bits_y(opcode)
        z == bits_z(opcode)
        p == bits_p(opcode)
        q == bits_q(opcode)
    IN  IF x = 0 /\ z = 2 THEN decode_indirect(p, q)
        ELSE IF x = 0 /\ z = 3 THEN decode_incdec16(p, q)
        ELSE IF x = 1 THEN decode_x1(y, z)
        ELSE IF x = 0 /\ z = 6 THEN decode_ld_r_d8(y)
        ELSE IF x = 0 /\ y = 0 /\ z = 0 THEN DecOk(Instruction_nop)
        ELSE decode_unmatched(opcode)

----------------------------------------------------------------------------
(* Executor (Cpu::fetch_*_from_operand, Cpu::fetch_and_execute)             *)
(* A result carries the status ("Ok" or the error), the register file and   *)
(* the memory the call leaves behind, and the fetched value.                *)

Res(status, rg, m, val) == [status |-> status, regs |-> rg, mem |-> m, val |-> val]

(* mutant: the immediate byte is read but PC is left on it *)
fetch_byte_from_operand_pc_stays(rg, m, operand) ==
    CASE operand.kind = "Reg8" -> Res("Ok", rg, m, fetch8(rg, operand.reg))
      [] operand.kind = "Reg16" ->
            LET rd == read_byte(m, as_addr(rg, operand.reg)) IN
            IF rd.ok THEN Res("Ok", rg, m, rd.val)
            ELSE Res("MemoryOverflow", rg, m, 0)
      [] operand.kind = "Immediate8" ->
            LET pc == fetch16(rg, "PC")
                rd == read_byte(m, pc)
            IN  IF rd.ok THEN Res("Ok", rg, m, rd.val)
                ELSE Res("MemoryOverflow", rg, m, 0)
      [] operand.kind = "Immediate16" ->
            LET pc == fetch16(rg, "PC")
                lo == read_byte(m, pc)
                hi == read_byte(m, pc + 1)
            IN  IF ~lo.ok \/ ~hi.ok THEN Res("MemoryOverflow", rg, m, 0)
                ELSE LET rg2 == write16(rg, "PC", pc + 2)
                         rd == read_byte(m, hi.val * 256 + lo.val)
                     IN  IF rd.ok THEN Res("Ok", rg2, m, rd.val)
                         ELSE Res("MemoryOverflow", rg2, m, 0)

(* mutant: a 16 bit immediate is refused when a byte is asked for *)
fetch_byte_from_operand_rejects_imm16(rg, m, operand) ==
    CASE operand.kind = "Reg8" -> Res("Ok", rg, m, fetch8(rg, operand.reg))
      [] operand.kind = "Reg16" ->
            LET rd == read_byte(m, as_addr(rg, operand.reg)) IN
            IF rd.ok THEN Res("Ok", rg, m, rd.val)
            ELSE Res("MemoryOverflow", rg, m, 0)
      [] operand.kind = "Immediate8" ->
            LET pc == fetch16(rg, "PC")
                rd == read_byte(m, pc)
            IN  IF rd.ok THEN Res("Ok", write16(rg, "PC", pc + 1), m, rd.val)
                ELSE Res("MemoryOverflow", rg, m, 0)
      [] operand.kind = "Immediate16" -> Res("FetchError", rg, m, 0)

fetch_byte_from_operand(rg, m, operand) ==
    CASE operand.kind = "Reg8" -> Res("Ok", rg, m, fetch8(rg, operand.reg))
      [] operand.kind = "Reg16" ->
            LET rd == read_byte(m, as_addr(rg, operand.reg)) IN
            IF rd.ok THEN Res("Ok", rg, m, rd.val)
            ELSE Res("MemoryOverflow", rg, m, 0)
      [] operand.kind = "Immediate8" ->
            LET pc == fetch16(rg, "PC")
                rd == read_byte(m, pc)
            IN  IF rd.ok THEN Res("Ok", write16(rg, "PC", pc + 1), m, rd.val)
                ELSE Res("MemoryOverflow", rg, m, 0)
      [] operand.kind = "Immediate16" ->
            LET pc == fetch16(rg, "PC")
                lo == read_byte(m, pc)
                hi == read_byte(m, pc + 1)
            IN  IF ~lo.ok \/ ~hi.ok THEN Res("MemoryOverflow", rg, m, 0)
                ELSE LET rg2 == write16(rg, "PC", pc + 2)
                         rd == read_byte(m, hi.val * 256 + lo.val)
                     IN  IF rd.ok THEN Res("Ok", rg2, m, rd.val)
                         ELSE Res("MemoryOverflow", rg2, m, 0)

(* mutant: the first byte read is taken as the high byte *)
fetch_word_from_operand_big_endian(rg, m, operand, checks) ==
    CASE operand.kind = "Reg16" -> Res("Ok", rg, m, fetch16(rg, operand.reg))
      [] operand.kind = "Immediate16" ->
            LET pc == fetch16(rg, "PC")
                lo == read_byte(m, pc)
                hi == read_byte(m, pc + 1)
            IN  IF ~lo.ok \/ ~hi.ok THEN Res("MemoryOverflow", rg, m, 0)
                ELSE LET i1 == inc16(rg, "PC", checks)
                         i2 == inc16(i1.regs, "PC", checks)
                     IN  IF i1.panic \/ i2.panic THEN Res("Panic", rg, m, 0)
                         ELSE Res("Ok", i2.regs, m, lo.val * 256 + hi.val)
      [] OTHER -> Res("FetchError", rg, m, 0)

(* mutant: PC is advanced after each byte, before the next one is read *)
fetch_word_from_operand_inc_between(rg, m, operand, checks) ==
    CASE operand.kind = "Reg16" -> Res("Ok", rg, m, fetch16(rg, operand.reg))
      [] operand.kind = "Immediate16" ->
            LET pc == fetch16(rg, "PC")
                lo == read_byte(m, pc)
            IN  IF ~lo.ok THEN Res("MemoryOverflow", rg, m, 0)
                ELSE LET i1 == inc16(rg, "PC", checks)
                         hi == read_byte(m, pc + 1)
                     IN  IF i1.panic THEN Res("Panic", rg, m, 0)
                         ELSE IF ~hi.ok THEN Res("MemoryOverflow", i1.regs, m, 0)
                         ELSE LET i2 == inc16(i1.regs, "PC", checks) IN
                              IF i2.panic THEN Res("Panic", i1.regs, m, 0)
                              ELSE Res("Ok", i2.regs, m, hi.val * 256 + lo.val)
      [] OTHER -> Res("FetchError", rg, m, 0)

fetch_word_from_operand(rg, m, operand, checks) ==
    CASE operand.kind = "Reg16" -> Res("Ok", rg, m, fetch16(rg, operand.reg))
      [] operand.kind = "Immediate16" ->
            LET pc == fetch16(rg, "PC")
                lo == read_byte(m, pc)
                hi == read_byte(m, pc + 1)
            IN  IF ~lo.ok \/ ~hi.ok THEN Res("MemoryOverflow", rg, m, 0)
                ELSE LET i1 == inc16(rg, "PC", checks)
                         i2 == inc16(i1.regs, "PC", checks)
                     IN  IF i1.panic \/ i2.panic THEN Res("Panic", rg, m, 0)
                         ELSE Res("Ok", i2.regs, m, hi.val * 256 + lo.val)
      [] OTHER -> Res("FetchError", rg, m, 0)

(* mutant: a store through a pair accepts every kind of source *)
fetch_and_execute_reg16_any_src(rg, m, instr) ==
    IF instr.itype = "Load"
    THEN IF instr.dest.kind = "Reg8"
         THEN LET fb == fetch_byte_from_operand(rg, m, instr.src) IN
              IF fb.status # "Ok" THEN Res(fb.status, fb.regs, fb.mem, 0)
              ELSE Res("Ok", write8(fb.regs, instr.dest.reg, fb.val), fb.mem, 0)
         ELSE IF instr.dest.kind = "Reg16"
         THEN LET addr == as_addr(rg, instr.dest.reg)
                  fb == fetch_byte_from_operand(rg, m, instr.src)
              IN  IF fb.status # "Ok" THEN Res(fb.status, fb.regs, fb.mem, 0)
                  ELSE LET wr == write_byte(fb.mem, addr, fb.val) IN
                       IF wr.ok THEN Res("Ok", fb.regs, wr.mem, 0)
                       ELSE Res("MemoryOverflow", fb.regs, fb.mem, 0)
         ELSE Res("UnsupportedInstruction", rg, m, 0)
    ELSE IF instr.itype = "Nop" THEN Res("Ok", rg, m, 0)
    ELSE Res("UnsupportedInstruction", rg, m, 0)

(* mutant: the executor has no arm for Nop *)
fetch_and_execute_nop_unsupported(rg, m, instr) ==
    IF instr.itype = "Load"
    THEN IF instr.dest.kind = "Reg8"
         THEN LET fb == fetch_byte_from_operand(rg, m, instr.src) IN
              IF fb.status # "Ok" THEN Res(fb.status, fb.regs, fb.mem, 0)
              ELSE Res("Ok", write8(fb.regs, instr.dest.reg, fb.val), fb.mem, 0)
         ELSE IF instr.dest.kind = "Reg16"
                    /\ instr.src.kind \in {"Reg8", "Immediate8"}
         THEN LET addr == as_addr(rg, instr.dest.reg)
                  fb == fetch_byte_from_operand(rg, m, instr.src)
              IN  IF fb.status # "Ok" THEN Res(fb.status, fb.regs, fb.mem, 0)
                  ELSE LET wr == write_byte(fb.mem, addr, fb.val) IN
                       IF wr.ok THEN Res("Ok", fb.regs, wr.mem, 0)
                       ELSE Res("MemoryOverflow", fb.regs, fb.mem, 0)
         ELSE Res("UnsupportedInstruction", rg, m, 0)
    ELSE Res("UnsupportedInstruction", rg, m, 0)

(* mutant: a store through a pair takes its byte from a register only *)
fetch_and_execute_no_imm8_store(rg, m, instr) ==
    IF instr.itype = "Load"
    THEN IF instr.dest.kind = "Reg8"
         THEN LET fb == fetch_byte_from_operand(rg, m, instr.src) IN
              IF fb.status # "Ok" THEN Res(fb.status, fb.regs, fb.mem, 0)
              ELSE Res("Ok", write8(fb.regs, instr.dest.reg, fb.val), fb.mem, 0)
         ELSE IF instr.dest.kind = "Reg16" /\ instr.src.kind = "Reg8"
         THEN LET addr == as_addr(rg, instr.dest.reg)
                  fb == fetch_byte_from_operand(rg, m, instr.src)
              IN  IF fb.status # "Ok" THEN Res(fb.status, fb.regs, fb.mem, 0)
                  ELSE LET wr == write_byte(fb.mem, addr, fb.val) IN
                       IF wr.ok THEN Res("Ok", fb.regs, wr.mem, 0)
                       ELSE Res("MemoryOverflow", fb.regs, fb.mem, 0)
         ELSE Res("UnsupportedInstruction", rg, m, 0)
    ELSE IF instr.itype = "Nop" THEN Res("Ok", rg, m, 0)
    ELSE Res("UnsupportedInstruction", rg, m, 0)

(* mutant: a store through a pair writes its byte at the address and at the *)
(* address after it                                                         *)
fetch_and_execute_store_two(rg, m, instr) ==
    IF instr.itype = "Load"
    THEN IF instr.dest.kind = "Reg8"
         THEN LET fb == fetch_byte_from_operand(rg, m, instr.src) IN
              IF fb.status # "Ok" THEN Res(fb.status, fb.regs, fb.mem, 0)
              ELSE Res("Ok", write8(fb.regs, instr.dest.reg, fb.val), fb.mem, 0)
         ELSE IF instr.dest.kind = "Reg16"
                    /\ instr.src.kind \in {"Reg8", "Immediate8"}
         THEN LET addr == as_addr(rg, instr.dest.reg)
                  fb == fetch_byte_from_operand(rg, m, instr.src)
              IN  IF fb.status # "Ok" THEN Res(fb.status, fb.regs, fb.mem, 0)
                  ELSE LET wr == mem_write(fb.mem, addr, <<fb.val, fb.val>>) IN
                       IF wr.ok THEN Res("Ok", fb.regs, wr.mem, 0)
                       ELSE Res("MemoryOverflow", fb.regs, fb.mem, 0)
         ELSE Res("UnsupportedInstruction", rg, m, 0)
    ELSE IF instr.itype = "Nop" THEN Res("Ok", rg, m, 0)
    ELSE Res("UnsupportedInstruction", rg, m, 0)

fetch_and_execute(rg, m, instr) ==
    IF instr.itype = "Load"
    THEN IF instr.dest.kind = "Reg8"
         THEN LET fb == fetch_byte_from_operand(rg, m, instr.src) IN
              IF fb.status # "Ok" THEN Res(fb.status, fb.regs, fb.mem, 0)
              ELSE Res("Ok", write8(fb.regs, instr.dest.reg, fb.val), fb.mem, 0)
         ELSE IF instr.dest.kind = "Reg16"
                    /\ instr.src.kind \in {"Reg8", "Immediate8"}
         THEN LET addr == as_addr(rg, instr.dest.reg)
                  fb == fetch_byte_from_operand(rg, m, instr.src)
              IN  IF fb.status # "Ok" THEN Res(fb.status, fb.regs, fb.mem, 0)
                  ELSE LET wr == write_byte(fb.mem, addr, fb.val) IN
                       IF wr.ok THEN Res("Ok", fb.regs, wr.mem, 0)
                       ELSE Res("MemoryOverflow", fb.regs, fb.mem, 0)
         ELSE Res("UnsupportedInstruction", rg, m, 0)
    ELSE IF instr.itype = "Nop" THEN Res("Ok", rg, m, 0)
    ELSE Res("UnsupportedInstruction", rg, m, 0)

(* Result of one step: as Res, with the opcode read (-1 when none was read) *)
(* and the instruction decoded.                                             *)
StepRes(r, opcode, instr) ==
    [status |-> r.status, regs |-> r.regs, mem |-> r.mem,
     opcode |-> opcode, instr |-> instr]

(* mutant: a step that fails puts the registers back as they were *)
step_rolls_back(rg, m, checks) ==
    LET pc == fetch16(rg, "PC")
        adv == inc16(rg, "PC", checks)
    IN  IF adv.panic THEN StepRes(Res("Panic", rg, m, 0), -1, Instruction_nop)
        ELSE LET rd == read_byte(m, pc) IN
             IF ~rd.ok
             THEN StepRes(Res("MemoryOverflow", rg, m, 0), -1, Instruction_nop)
             ELSE LET dc == decode(rd.val) IN
                  IF ~dc.ok
                  THEN StepRes(Res("DecodeError", rg, m, 0), rd.val,
                               Instruction_nop)
                  ELSE LET ex == fetch_and_execute(adv.regs, m, dc.val) IN
                       IF ex.status = "Ok" THEN StepRes(ex, rd.val, dc.val)
                       ELSE StepRes(Res(ex.status, rg, m, 0), rd.val, dc.val)

step(rg, m, checks) ==
    LET pc == fetch16(rg, "PC")
        adv == inc16(rg, "PC", checks)
    IN  IF adv.panic THEN StepRes(Res("Panic", rg, m, 0), -1, Instruction_nop)
        ELSE LET rd == read_byte(m, pc) IN
             IF ~rd.ok
             THEN StepRes(Res("MemoryOverflow", adv.regs, m, 0), -1, Instruction_nop)
             ELSE LET dc == decode(rd.val) IN
                  IF ~dc.ok
                  THEN StepRes(Res("DecodeError", adv.regs, m, 0), rd.val,
                               Instruction_nop)
                  ELSE StepRes(fetch_and_execute(adv.regs, m, dc.val), rd.val,
                               dc.val)

----------------------------------------------------------------------------
(* Inputs of the host: the bytes and register values it seeds *)

SeedProgAddrs == {0}
SeedOpcodes ==
    {op \in 0..255 : bits_x(op) = 0 /\ bits_z(op) \in {2, 3, 6}}
        \cup {op \in 0..255 : bits_x(op) = 1 /\ (bits_y(op) = 6 \/ bits_z(op) = 6)}
        \cup {0, 1, 64, 65, 188}

SeedImms == {188}
SeedWords == {1, 256, 65534, 65535}
SeedAddrs == {65534}
SeedEdgeBytes == {6, 54}
SeedRegs16 == {"BC", "DE", "HL", "SP", "PC"}
SeedRegs8 == {"A", "F"}
SeedBytes == {127}
FetchOperands == {Immediate8}

NoLast ==
    [kind |-> "none", opcode |-> -1, instr |-> Instruction_nop,
     operand |-> NoOperand, regs |-> Registers_default, mem |-> Memory_default,
     status |-> "Ok", val |-> 0, addr |-> 0, bytes |-> << >>, reg |-> NoReg]

----------------------------------------------------------------------------
(* State machine *)

(* Cpu::default() : zeroed registers, zero-filled memory *)
Init ==
    /\ registers = Registers_default
    /\ mem = Memory_default
    /\ overflowChecks \in BOOLEAN
    /\ mode = "idle"
    /\ nseed = 0
    /\ nops = 0
    /\ last = NoLast

CanSeed == mode = "idle" /\ nops = 0 /\ nseed < MaxSeeds

(* cpu.mem.write(Address(a), &[op, imm]) : the host loads a program *)
SeedProgram(a, op, imm) ==
    /\ CanSeed
    /\ LET wr == mem_write(mem, a, <<op, imm>>) IN
       mem' = wr.mem
    /\ nseed' = nseed + 1
    /\ last' = NoLast
    /\ UNCHANGED <<registers, overflowChecks, mode, nops>>

(* cpu.mem.write_byte(Address(a), v) : the host places a single byte *)
SeedByte(a, v) ==
    /\ CanSeed
    /\ LET wr == write_byte(mem, a, v) IN
       mem' = wr.mem
    /\ nseed' = nseed + 1
    /\ last' = NoLast
    /\ UNCHANGED <<registers, overflowChecks, mode, nops>>

(* cpu.registers.write(register!(p), v) *)
SeedRegister16(p, v) ==
    /\ CanSeed
    /\ registers' = write16(registers, p, v)
    /\ nseed' = nseed + 1
    /\ last' = NoLast
    /\ UNCHANGED <<mem, overflowChecks, mode, nops>>

(* cpu.registers.write(register!(r), v) *)
SeedRegister8(r, v) ==
    /\ CanSeed
    /\ registers' = write8(registers, r, v)
    /\ nseed' = nseed + 1
    /\ last' = NoLast
    /\ UNCHANGED <<mem, overflowChecks, mode, nops>>

StepLast(r, kind) ==
    [NoLast EXCEPT !.kind = kind, !.opcode = r.opcode, !.instr = r.instr,
                   !.regs = registers, !.mem = mem, !.status = r.status]

(* mutant: the step works on the memory image taken before the previous    *)
(* step, as a cpu that had fetched ahead would                              *)
StepCall_prefetched ==
    /\ mode = "idle"
    /\ nops < MaxOps
    /\ LET image == IF last.kind = "step" THEN last.mem ELSE mem
           r == step(registers, image, overflowChecks)
       IN  /\ registers' = r.regs
           /\ mem' = r.mem
           /\ last' = StepLast(r, "step")
           /\ mode' = IF r.status = "Panic" THEN "panicked" ELSE "idle"
    /\ nops' = nops + 1
    /\ UNCHANGED <<overflowChecks, nseed>>

(* cpu.step() called on its own *)
StepCall ==
    /\ mode = "idle"
    /\ nops < MaxOps
    /\ LET r == step(registers, mem, overflowChecks) IN
       /\ registers' = r.regs
       /\ mem' = r.mem
       /\ last' = StepLast(r, "step")
       /\ mode' = IF r.status = "Panic" THEN "panicked" ELSE "idle"
    /\ nops' = nops + 1
    /\ UNCHANGED <<overflowChecks, nseed>>

(* cpu.run() is entered: the halt byte is written, then the loop starts *)
RunStart ==
    /\ mode = "idle"
    /\ LET wr == write_byte(mem, HALT_ADDR, HALT_OPCODE) IN
       /\ mem' = wr.mem
       /\ mode' = IF wr.ok THEN "running" ELSE "returned"
       /\ last' = [NoLast EXCEPT !.kind = "run", !.regs = registers, !.mem = mem,
                                 !.status = IF wr.ok THEN "Ok" ELSE "MemoryOverflow"]
    /\ UNCHANGED <<registers, overflowChecks, nseed, nops>>

(* mutant: the loop goes on after a step that returned an error *)
RunStep_keeps_running ==
    /\ mode = "running"
    /\ nops < MaxOps
    /\ LET r == step(registers, mem, overflowChecks) IN
       /\ registers' = r.regs
       /\ mem' = r.mem
       /\ last' = StepLast(r, "runstep")
       /\ mode' = IF r.status = "Panic" THEN "panicked" ELSE "running"
    /\ nops' = nops + 1
    /\ UNCHANGED <<overflowChecks, nseed>>

(* one iteration of the loop of run(): self.step()?                        *)
(* run() returns the error of the first step that fails                     *)
RunStep ==
    /\ mode = "running"
    /\ nops < MaxOps
    /\ LET r == step(registers, mem, overflowChecks) IN
       /\ registers' = r.regs
       /\ mem' = r.mem
       /\ last' = StepLast(r, "runstep")
       /\ mode' = IF r.status = "Panic" THEN "panicked"
                  ELSE IF r.status = "Ok" THEN "running"
                  ELSE "returned"
    /\ nops' = nops + 1
    /\ UNCHANGED <<overflowChecks, nseed>>

(* cpu.fetch_byte_from_operand(operand) called on its own *)
FetchByteCall(operand) ==
    /\ mode = "idle"
    /\ nops < MaxOps
    /\ LET r == fetch_byte_from_operand(registers, mem, operand) IN
       /\ registers' = r.regs
       /\ mem' = r.mem
       /\ last' = [NoLast EXCEPT !.kind = "fetch_byte", !.operand = operand,
                                 !.regs = registers, !.mem = mem,
                                 !.status = r.status, !.val = r.val]
    /\ nops' = nops + 1
    /\ UNCHANGED <<overflowChecks, mode, nseed>>

Next ==
    \/ \E a \in SeedProgAddrs, op \in SeedOpcodes, imm \in SeedImms :
            SeedProgram(a, op, imm)
    \/ \E a \in SeedAddrs, v \in SeedEdgeBytes : SeedByte(a, v)
    \/ \E p \in SeedRegs16, v \in SeedWords : SeedRegister16(p, v)
    \/ \E r \in SeedRegs8, v \in SeedBytes : SeedRegister8(r, v)
    \/ StepCall
    \/ RunStart
    \/ RunStep
    \/ \E operand \in FetchOperands : FetchByteCall(operand)

Spec == Init /\ [][Next]_vars

----------------------------------------------------------------------------
(* The decoder on its own: cpu.decode(opcode) for every opcode byte *)

DecodeCall(opcode) ==
    /\ mode = "idle"
    /\ LET dc == decode(opcode) IN
       last' = [NoLast EXCEPT !.kind = "decode", !.opcode = opcode,
                              !.instr = dc.val, !.regs = registers, !.mem = mem,
                              !.status = IF dc.ok THEN "Ok" ELSE "DecodeError"]
    /\ UNCHANGED <<registers, mem, overflowChecks, mode, nseed, nops>>

NextDecode ==
    \/ \E v \in SeedWords : SeedRegister16("PC", v)
    \/ \E a \in SeedAddrs, v \in SeedEdgeBytes : SeedByte(a, v)
    \/ \E opcode \in 0..255 : DecodeCall(opcode)

SpecDecode == Init /\ [][NextDecode]_vars

----------------------------------------------------------------------------
(* Vocabulary of the properties *)

IsStep == last.kind \in {"step", "runstep"}

(* the opcode a step read, and its bit fields *)
StepOn(ops) == IsStep /\ last.opcode \in ops

(* value of a 16-bit register in a register file, first-named register high *)
PairValue(rg, p) ==
    CASE p = "AF" -> rg.a * 256 + rg.f
      [] p = "BC" -> rg.b * 256 + rg.c
      [] p = "DE" -> rg.d * 256 + rg.e
      [] p = "HL" -> rg.h * 256 + rg.l
      [] p = "SP" -> rg.sp
      [] p = "PC" -> rg.pc

(* value of an 8-bit register in a register file *)
ByteValue(rg, r) ==
    CASE r = "A" -> rg.a [] r = "F" -> rg.f [] r = "B" -> rg.b [] r = "C" -> rg.c
      [] r = "D" -> rg.d [] r = "E" -> rg.e [] r = "H" -> rg.h [] r = "L" -> rg.l

(* the byte the memory holds at an address *)
ByteAt(m, a) == IF a \in DOMAIN m THEN m[a] ELSE 0

(* the 8-register table of the specification, index 6 being (HL) *)
TableR ==
    <<[kind |-> "Reg8", reg |-> "B"], [kind |-> "Reg8", reg |-> "C"],
      [kind |-> "Reg8", reg |-> "D"], [kind |-> "Reg8", reg |-> "E"],
      [kind |-> "Reg8", reg |-> "H"], [kind |-> "Reg8", reg |-> "L"],
      [kind |-> "Reg16", reg |-> "HL"], [kind |-> "Reg8", reg |-> "A"]>>

(* the register-pair table of the specification *)
TableRP == <<"BC", "DE", "HL", "SP">>

OldPC == last.regs.pc

----------------------------------------------------------------------------
(* C1: a step that fetches Halt (opcode 0x76) is not an error: the step     *)
(* succeeds, and inside run() the loop stops and run() returns success.     *)
C1_HaltIsNotAnError ==
    StepOn({HALT_OPCODE}) =>
        /\ last.status = "Ok"
        /\ last.kind = "runstep" => mode = "returned"

(* C2: a Load with a followup (0x22, 0x2A, 0x32, 0x3A) that succeeds leaves *)
(* HL equal to the old HL plus one (Inc) or minus one (Dec) modulo 65536,   *)
(* the access having been made at the old HL.                               *)
C2_FollowupApplied ==
    (StepOn({34, 42, 50, 58}) /\ last.status = "Ok") =>
        LET oldHL == PairValue(last.regs, "HL")
            delta == IF last.opcode \in {34, 42} THEN 1 ELSE 65535
        IN  /\ PairValue(registers, "HL") = (oldHL + delta) % 65536
            /\ last.opcode \in {42, 58} => registers.a = ByteAt(last.mem, oldHL)
            /\ last.opcode \in {34, 50} => ByteAt(mem, oldHL) = last.regs.a

(* C3: a step on a 16-bit INC or DEC opcode (x = 0, z = 3) succeeds and     *)
(* changes the pair RP[p] by exactly +1 (q = 0) or -1 (q = 1) modulo 65536. *)
C3_IncDec16Executes ==
    (IsStep /\ last.opcode >= 0 /\ bits_x(last.opcode) = 0
            /\ bits_z(last.opcode) = 3) =>
        LET rp == TableRP[bits_p(last.opcode) + 1]
            delta == IF bits_q(last.opcode) = 0 THEN 1 ELSE 65535
        IN  /\ last.status = "Ok"
            /\ PairValue(registers, rp) = (PairValue(last.regs, rp) + delta) % 65536

(* C4: one step on LD r,d8 (x = 0, z = 6, y # 6) with the immediate byte v  *)
(* stored at the address after the opcode succeeds, sets r = v and leaves   *)
(* PC advanced by exactly 2; resolving an Immediate8 operand on its own     *)
(* returns the byte at PC and advances PC by exactly 1.                     *)
C4_LoadImmediate8 ==
    /\ (IsStep /\ last.opcode >= 0 /\ bits_x(last.opcode) = 0
               /\ bits_z(last.opcode) = 6 /\ bits_y(last.opcode) # 6
               /\ OldPC + 1 < MEM_SIZE) =>
            /\ last.status = "Ok"
            /\ ByteValue(registers, TableR[bits_y(last.opcode) + 1].reg)
                    = ByteAt(last.mem, OldPC + 1)
            /\ registers.pc = OldPC + 2
    /\ (last.kind = "fetch_byte" /\ last.operand.kind = "Immediate8"
               /\ OldPC < MEM_SIZE) =>
            /\ last.status = "Ok"
            /\ last.val = ByteAt(last.mem, OldPC)
            /\ registers.pc = OldPC + 1

C4_Witness ==
    /\ last.kind = "step" /\ last.opcode = 62 /\ OldPC = 0
    /\ ByteAt(last.mem, 1) = 188 /\ last.regs.a = 127
    /\ registers.a = 188 /\ registers.pc = 2

(* C5: a Load with src Reg16(p) and dest Reg8(r) sets r to the byte stored  *)
(* at the address equal to the value of pair p (first-named register high), *)
(* for every in-bounds address.                                             *)
C5_LoadThroughPair ==
    (IsStep /\ last.opcode >= 0 /\ last.instr.itype = "Load"
            /\ last.instr.src.kind = "Reg16" /\ last.instr.dest.kind = "Reg8"
            /\ PairValue(last.regs, last.instr.src.reg) < MEM_SIZE) =>
        /\ last.status = "Ok"
        /\ ByteValue(registers, last.instr.dest.reg)
                = ByteAt(last.mem, PairValue(last.regs, last.instr.src.reg))

C5_Witness ==
    /\ last.kind = "step" /\ last.opcode = 70
    /\ PairValue(last.regs, "HL") = 1 /\ ByteAt(last.mem, 1) = 188
    /\ last.regs.b = 0 /\ registers.b = 188

(* C6: a Load whose dest is Reg16(p) and whose src is an 8-bit register or  *)
(* Immediate8 writes the source byte to memory at the address held in p, so *)
(* that the byte at that address afterwards equals the source byte.         *)
C6_StoreThroughPair ==
    (IsStep /\ last.opcode >= 0 /\ last.instr.itype = "Load"
            /\ last.instr.dest.kind = "Reg16"
            /\ last.instr.src.kind \in {"Reg8", "Immediate8"}
            /\ (last.instr.src.kind = "Immediate8" => OldPC + 1 < MEM_SIZE)) =>
        LET addr == PairValue(last.regs, last.instr.dest.reg)
            byte == IF last.instr.src.kind = "Reg8"
                    THEN ByteValue(last.regs, last.instr.src.reg)
                    ELSE ByteAt(last.mem, OldPC + 1)
        IN  /\ last.status = "Ok"
            /\ read_byte(mem, addr).ok
            /\ read_byte(mem, addr).val = byte

(* the store of C6 as the code performs it: it holds for every address      *)
(* below MEM_SIZE                                                           *)
StoreThroughPairInBounds ==
    (IsStep /\ last.opcode >= 0 /\ last.instr.itype = "Load"
            /\ last.instr.dest.kind = "Reg16"
            /\ last.instr.src.kind \in {"Reg8", "Immediate8"}
            /\ (last.instr.src.kind = "Immediate8" => OldPC + 1 < MEM_SIZE)
            /\ PairValue(last.regs, last.instr.dest.reg) < MEM_SIZE) =>
        LET addr == PairValue(last.regs, last.instr.dest.reg)
            byte == IF last.instr.src.kind = "Reg8"
                    THEN ByteValue(last.regs, last.instr.src.reg)
                    ELSE ByteAt(last.mem, OldPC + 1)
        IN  last.status = "Ok" /\ ByteAt(mem, addr) = byte

----------------------------------------------------------------------------
(* Properties of the decoder *)

IsDecode == last.kind = "decode"

(* the opcode patterns the specification lists as decodable *)
Listed(opcode) ==
    \/ bits_x(opcode) = 0 /\ bits_z(opcode) \in {2, 3, 6}
    \/ opcode = 0
    \/ bits_x(opcode) = 1

(* C7: decode succeeds only for the listed patterns; for every other opcode *)
(* it returns a decode error and no instruction.                            *)
C7_ClosedWorld ==
    IsDecode =>
        /\ last.status \in {"Ok", "DecodeError"}
        /\ last.status = "Ok" <=> Listed(last.opcode)

C7_Witness ==
    IsDecode /\ last.opcode = 195 /\ last.status = "DecodeError"

(* C8: every opcode with x = 1, other than 0x76, with y # z decodes to      *)
(* Load{src: R[z], dest: R[y], followup: None}.                             *)
C8_LoadRegReg ==
    (IsDecode /\ bits_x(last.opcode) = 1 /\ last.opcode # 118
              /\ bits_y(last.opcode) # bits_z(last.opcode)) =>
        /\ last.status = "Ok"
        /\ last.instr.itype = "Load"
        /\ last.instr.src = TableR[bits_z(last.opcode) + 1]
        /\ last.instr.dest = TableR[bits_y(last.opcode) + 1]
        /\ last.instr.followup = "None"

C8_Witness ==
    /\ IsDecode /\ last.opcode = 112 /\ last.instr.itype = "Load"
    /\ last.instr.src = [kind |-> "Reg8", reg |-> "B"]
    /\ last.instr.dest = [kind |-> "Reg16", reg |-> "HL"]

(* C9: every opcode with x = 1 and y = z, other than 0x76, decodes to NoOp  *)
(* instead of a Load, and so does opcode 0x00.                              *)
C9_SelfLoadIsNoOp ==
    (IsDecode /\ \/ last.opcode = 0
                 \/ /\ bits_x(last.opcode) = 1 /\ last.opcode # 118
                    /\ bits_y(last.opcode) = bits_z(last.opcode)) =>
        last.status = "Ok" /\ last.instr.itype = "Nop"

C9_Witness ==
    IsDecode /\ last.opcode = 64 /\ last.status = "Ok" /\ last.instr.itype = "Nop"

(* C10: opcode 0x76 decodes to Halt, never to a Load or NoOp.               *)
C10_HaltBeforeLoad ==
    (IsDecode /\ last.opcode = 118) =>
        last.status = "Ok" /\ last.instr.itype = "Halt"

C10_Witness ==
    IsDecode /\ last.opcode = 118 /\ last.instr.itype = "Halt"

(* C11: every opcode with x = 0 and z = 2 decodes to an indirect 8-bit load *)
(* between A and memory: q = 0 stores A through the pair, q = 1 loads A      *)
(* through it; p selects BC/None, DE/None, HL/Inc, HL/Dec.                   *)
C11_IndirectLoads ==
    (IsDecode /\ bits_x(last.opcode) = 0 /\ bits_z(last.opcode) = 2) =>
        LET p == bits_p(last.opcode)
            regA == [kind |-> "Reg8", reg |-> "A"]
            pair == [kind |-> "Reg16", reg |-> <<"BC", "DE", "HL", "HL">>[p + 1]]
        IN  /\ last.status = "Ok"
            /\ last.instr.itype = "Load"
            /\ last.instr.followup = <<"None", "None", "Inc", "Dec">>[p + 1]
            /\ bits_q(last.opcode) = 0 =>
                    last.instr.src = regA /\ last.instr.dest = pair
            /\ bits_q(last.opcode) = 1 =>
                    last.instr.src = pair /\ last.instr.dest = regA

C11_Witness ==
    /\ IsDecode /\ last.opcode = 58 /\ last.instr.followup = "Dec"
    /\ last.instr.src = [kind |-> "Reg16", reg |-> "HL"]
    /\ last.instr.dest = [kind |-> "Reg8", reg |-> "A"]

(* C12: every opcode with x = 0 and z = 3 decodes to Increment(RP[p]) when   *)
(* q = 0 and Decrement(RP[p]) when q = 1, with RP = [BC, DE, HL, SP].        *)
C12_IncDec16Decoded ==
    (IsDecode /\ bits_x(last.opcode) = 0 /\ bits_z(last.opcode) = 3) =>
        /\ last.status = "Ok"
        /\ last.instr.itype = IF bits_q(last.opcode) = 0 THEN "Inc" ELSE "Dec"
        /\ last.instr.dest =
                [kind |-> "Reg16", reg |-> TableRP[bits_p(last.opcode) + 1]]

C12_Witness ==
    /\ IsDecode /\ last.opcode = 59 /\ last.instr.itype = "Dec"
    /\ last.instr.dest = [kind |-> "Reg16", reg |-> "SP"]

(* C13: every opcode with x = 0 and z = 6 decodes to Load{src: Immediate8,   *)
(* dest: R[y], followup: None} (0x36 has dest Reg16(HL)), and decoding does  *)
(* not consume the immediate byte or move PC.                                *)
C13_LoadImmediateDecoded ==
    (IsDecode /\ bits_x(last.opcode) = 0 /\ bits_z(last.opcode) = 6) =>
        /\ last.status = "Ok"
        /\ last.instr.itype = "Load"
        /\ last.instr.src = [kind |-> "Immediate8", reg |-> "-"]
        /\ last.instr.dest = TableR[bits_y(last.opcode) + 1]
        /\ last.instr.followup = "None"
        /\ registers = last.regs
        /\ mem = last.mem

C13_Witness ==
    /\ IsDecode /\ last.opcode = 54 /\ registers.pc = 65534
    /\ ByteAt(mem, 65534) = 54
    /\ last.instr.src.kind = "Immediate8"
    /\ last.instr.dest = [kind |-> "Reg16", reg |-> "HL"]

----------------------------------------------------------------------------
(* The memory on its own: read, read_byte, write, write_byte *)

MemAddrs == {255, 256, 257, 65533, 65534, 65535}
MemByteVals == {0, 171}
MemSlices == {<< >>, <<171>>, <<18, 52>>, <<171, 205, 239>>}
MemLens == {0, 1, 2, 3}

CanCall == mode = "idle" /\ nops < MaxOps

(* cpu.mem.write_byte(Address(a), v) *)
WriteByteCall(a, v) ==
    /\ CanCall
    /\ LET wr == write_byte(mem, a, v) IN
       /\ mem' = wr.mem
       /\ last' = [NoLast EXCEPT !.kind = "write_byte", !.addr = a, !.val = v,
                                 !.bytes = <<v>>, !.regs = registers, !.mem = mem,
                                 !.status = IF wr.ok THEN "Ok" ELSE "MemoryOverflow"]
    /\ nops' = nops + 1
    /\ UNCHANGED <<registers, overflowChecks, mode, nseed>>

(* cpu.mem.read_byte(Address(a)) *)
ReadByteCall(a) ==
    /\ CanCall
    /\ LET rd == read_byte(mem, a) IN
       /\ mem' = rd.mem
       /\ last' = [NoLast EXCEPT !.kind = "read_byte", !.addr = a, !.val = rd.val,
                                 !.regs = registers, !.mem = mem,
                                 !.status = IF rd.ok THEN "Ok" ELSE "MemoryOverflow"]
    /\ nops' = nops + 1
    /\ UNCHANGED <<registers, overflowChecks, mode, nseed>>

(* cpu.mem.write(Address(a), bytes) *)
WriteCall(a, bytes) ==
    /\ CanCall
    /\ LET wr == mem_write(mem, a, bytes) IN
       /\ mem' = wr.mem
       /\ last' = [NoLast EXCEPT !.kind = "write", !.addr = a, !.val = Len(bytes),
                                 !.bytes = bytes, !.regs = registers, !.mem = mem,
                                 !.status = IF wr.ok THEN "Ok" ELSE "MemoryOverflow"]
    /\ nops' = nops + 1
    /\ UNCHANGED <<registers, overflowChecks, mode, nseed>>

(* cpu.mem.read(Address(a), len) : last.bytes is the slice returned *)
ReadCall(a, len) ==
    /\ CanCall
    /\ LET rd == mem_read(mem, a, len) IN
       /\ mem' = rd.mem
       /\ last' = [NoLast EXCEPT !.kind = "read", !.addr = a, !.val = len,
                                 !.bytes = IF rd.ok THEN rd.val ELSE << >>,
                                 !.regs = registers, !.mem = mem,
                                 !.status = IF rd.ok THEN "Ok" ELSE "MemoryOverflow"]
    /\ nops' = nops + 1
    /\ UNCHANGED <<registers, overflowChecks, mode, nseed>>

NextMemory ==
    \/ \E a \in MemAddrs, v \in MemByteVals : WriteByteCall(a, v)
    \/ \E a \in MemAddrs : ReadByteCall(a)
    \/ \E a \in MemAddrs, bytes \in MemSlices : WriteCall(a, bytes)
    \/ \E a \in MemAddrs, len \in MemLens : ReadCall(a, len)

SpecMemory == Init /\ [][NextMemory]_vars

IsMemCall == last.kind \in {"read", "read_byte", "write", "write_byte"}

(* C14: memory covers the full 16-bit address space: read_byte(a) and        *)
(* write_byte(a, v) succeed for every address a in 0x0000..=0xFFFF.          *)
C14_FullAddressSpace ==
    (last.kind \in {"read_byte", "write_byte"} /\ last.addr \in 0..65535) =>
        last.status = "Ok"

(* C15: for addr + len(bytes) <= memory size, write(addr, bytes) succeeds    *)
(* and a following read(addr, len(bytes)) returns exactly bytes; and         *)
(* write_byte(addr, v) followed by read_byte(addr) returns v.                *)
C15_MemoryRoundTrip ==
    /\ (last.kind = "write" /\ last.addr + Len(last.bytes) <= MEM_SIZE) =>
            /\ last.status = "Ok"
            /\ mem_read(mem, last.addr, Len(last.bytes)).ok
            /\ mem_read(mem, last.addr, Len(last.bytes)).val = last.bytes
            /\ \A i \in 1..Len(last.bytes) :
                    ByteAt(mem, last.addr + i - 1) = last.bytes[i]
    /\ (last.kind = "write_byte" /\ last.addr < MEM_SIZE) =>
            /\ last.status = "Ok"
            /\ read_byte(mem, last.addr).ok
            /\ read_byte(mem, last.addr).val = last.val
            /\ ByteAt(mem, last.addr) = last.val
    /\ (last.kind = "read" /\ last.status = "Ok") =>
            /\ Len(last.bytes) = last.val
            /\ \A i \in 1..last.val :
                    last.bytes[i] = ByteAt(last.mem, last.addr + i - 1)
    /\ (last.kind = "read_byte" /\ last.status = "Ok") =>
            last.val = ByteAt(last.mem, last.addr)

(* a read that returns the three bytes an earlier write stored *)
C15_Witness ==
    /\ last.kind = "read" /\ last.addr = 256 /\ last.status = "Ok"
    /\ last.bytes = <<171, 205, 239>>

(* C16: read and write return MemoryOverflow exactly when addr + len is      *)
(* above the memory size, read_byte and write_byte exactly when addr is not  *)
(* below it, and a failing call changes no byte of memory.                   *)
C16_OverflowWithoutEffect ==
    IsMemCall =>
        /\ last.status \in {"Ok", "MemoryOverflow"}
        /\ last.kind \in {"read", "write"} =>
                (last.status = "MemoryOverflow" <=> last.addr + last.val > MEM_SIZE)
        /\ last.kind \in {"read_byte", "write_byte"} =>
                (last.status = "MemoryOverflow" <=> last.addr >= MEM_SIZE)
        /\ last.status = "MemoryOverflow" => mem = last.mem

(* a write straddling the end of memory fails and stores none of its bytes *)
C16_Witness ==
    /\ last.kind = "write" /\ last.addr = 65533 /\ last.bytes = <<171, 205, 239>>
    /\ last.status = "MemoryOverflow"
    /\ ByteAt(mem, 65533) = 0 /\ ByteAt(mem, 65534) = 0

(* C17: a successful write(addr, bytes) changes only the bytes in            *)
(* [addr, addr + len(bytes)); every other byte keeps its value.              *)
C17_WriteFrame ==
    (last.kind \in {"write", "write_byte"} /\ last.status = "Ok") =>
        \A a \in (DOMAIN mem) \cup (DOMAIN last.mem) :
            (a < last.addr \/ a >= last.addr + Len(last.bytes)) =>
                ByteAt(mem, a) = ByteAt(last.mem, a)

(* a write over the second of two bytes stored earlier leaves the first *)
C17_Witness ==
    /\ last.kind = "write" /\ last.addr = 256 /\ last.bytes = <<171>>
    /\ last.status = "Ok"
    /\ ByteAt(last.mem, 255) = 18 /\ ByteAt(last.mem, 256) = 52
    /\ ByteAt(mem, 255) = 18 /\ ByteAt(mem, 256) = 171 /\ ByteAt(mem, 257) = 0

----------------------------------------------------------------------------
(* The register file on its own: fetch, write, inc, dec *)

RegByteVals == {0, 69, 255}
RegWordVals == {0, 255, 42053, 65535}

RegLast(kind, reg, val, status) ==
    [NoLast EXCEPT !.kind = kind, !.reg = reg, !.val = val, !.status = status,
                   !.regs = registers, !.mem = mem]

(* cpu.registers.write(r, v) for an 8-bit identifier *)
RegWrite8Call(r, v) ==
    /\ CanCall
    /\ registers' = write8(registers, r, v)
    /\ last' = RegLast("reg_write8", r, v, "Ok")
    /\ nops' = nops + 1
    /\ UNCHANGED <<mem, overflowChecks, mode, nseed>>

(* cpu.registers.write(p, v) for a 16-bit identifier *)
RegWrite16Call(p, v) ==
    /\ CanCall
    /\ registers' = write16(registers, p, v)
    /\ last' = RegLast("reg_write16", p, v, "Ok")
    /\ nops' = nops + 1
    /\ UNCHANGED <<mem, overflowChecks, mode, nseed>>

(* cpu.registers.fetch(r) for an 8-bit identifier : last.val is the result *)
RegFetch8Call(r) ==
    /\ CanCall
    /\ last' = RegLast("reg_fetch8", r, fetch8(registers, r), "Ok")
    /\ nops' = nops + 1
    /\ UNCHANGED <<registers, mem, overflowChecks, mode, nseed>>

(* cpu.registers.fetch(p) for a 16-bit identifier : last.val is the result *)
RegFetch16Call(p) ==
    /\ CanCall
    /\ last' = RegLast("reg_fetch16", p, fetch16(registers, p), "Ok")
    /\ nops' = nops + 1
    /\ UNCHANGED <<registers, mem, overflowChecks, mode, nseed>>

(* the state a register operation that may panic leaves behind *)
RegArith(kind, reg, out) ==
    /\ registers' = out.regs
    /\ last' = RegLast(kind, reg, 0, IF out.panic THEN "Panic" ELSE "Ok")
    /\ mode' = IF out.panic THEN "panicked" ELSE mode
    /\ nops' = nops + 1
    /\ UNCHANGED <<mem, overflowChecks, nseed>>

(* cpu.registers.inc(r) and cpu.registers.dec(r), 8-bit *)
RegInc8Call(r) ==
    CanCall /\ RegArith("reg_inc8", r, inc8(registers, r, overflowChecks))

RegDec8Call(r) ==
    CanCall /\ RegArith("reg_dec8", r, dec8(registers, r, overflowChecks))

(* cpu.registers.inc(p) and cpu.registers.dec(p), 16-bit *)
RegInc16Call(p) ==
    CanCall /\ RegArith("reg_inc16", p, inc16(registers, p, overflowChecks))

RegDec16Call(p) ==
    CanCall /\ RegArith("reg_dec16", p, dec16(registers, p, overflowChecks))

NextRegisters ==
    \/ \E r \in Register8, v \in RegByteVals : RegWrite8Call(r, v)
    \/ \E p \in Register16, v \in RegWordVals : RegWrite16Call(p, v)
    \/ \E r \in Register8 : RegFetch8Call(r)
    \/ \E p \in Register16 : RegFetch16Call(p)
    \/ \E r \in Register8 : RegInc8Call(r)
    \/ \E r \in Register8 : RegDec8Call(r)
    \/ \E p \in Register16 : RegInc16Call(p)
    \/ \E p \in Register16 : RegDec16Call(p)

SpecRegisters == Init /\ [][NextRegisters]_vars

(* C18: for every 8-bit register r and every byte v, write(r, v) followed    *)
(* by fetch(r) returns v.                                                    *)
C18_Register8RoundTrip ==
    /\ last.kind = "reg_write8" =>
            /\ fetch8(registers, last.reg) = last.val
            /\ ByteValue(registers, last.reg) = last.val
    /\ last.kind = "reg_fetch8" =>
            last.val = ByteValue(last.regs, last.reg)

(* a fetch of F that returns the byte written to it before *)
C18_Witness ==
    /\ last.kind = "reg_fetch8" /\ last.reg = "F" /\ last.val = 69
    /\ last.regs.f = 69 /\ last.regs.a = 0

(* C19: for every pair p and word v, write(p, v) followed by fetch(p)        *)
(* returns v, the first-named register then holds v >> 8 and the second      *)
(* v & 0xFF; for SP and PC write and fetch round-trip the 16-bit value.      *)
C19_Register16RoundTrip ==
    /\ last.kind = "reg_write16" =>
            /\ fetch16(registers, last.reg) = last.val
            /\ PairValue(registers, last.reg) = last.val
            /\ last.reg = "AF" =>
                    registers.a = last.val \div 256 /\ registers.f = last.val % 256
            /\ last.reg = "BC" =>
                    registers.b = last.val \div 256 /\ registers.c = last.val % 256
            /\ last.reg = "DE" =>
                    registers.d = last.val \div 256 /\ registers.e = last.val % 256
            /\ last.reg = "HL" =>
                    registers.h = last.val \div 256 /\ registers.l = last.val % 256
            /\ last.reg = "SP" => registers.sp = last.val
            /\ last.reg = "PC" => registers.pc = last.val
    /\ last.kind = "reg_fetch16" =>
            last.val = PairValue(last.regs, last.reg)

C19_Witness ==
    /\ last.kind = "reg_write16" /\ last.reg = "AF" /\ last.val = 42053
    /\ registers.a = 164 /\ registers.f = 69

(* C20: inc and dec are wrapping: an 8-bit register holding 0xFF increments  *)
(* to 0x00 and 0x00 decrements to 0xFF, a 16-bit register holding 0xFFFF     *)
(* increments to 0x0000 and 0x0000 decrements to 0xFFFF, without aborting.   *)
C20_IncDecWrap ==
    /\ last.kind = "reg_inc8" =>
            /\ last.status = "Ok"
            /\ ByteValue(registers, last.reg)
                    = (ByteValue(last.regs, last.reg) + 1) % 256
    /\ last.kind = "reg_dec8" =>
            /\ last.status = "Ok"
            /\ ByteValue(registers, last.reg)
                    = (ByteValue(last.regs, last.reg) + 255) % 256
    /\ last.kind = "reg_inc16" =>
            /\ last.status = "Ok"
            /\ PairValue(registers, last.reg)
                    = (PairValue(last.regs, last.reg) + 1) % 65536
    /\ last.kind = "reg_dec16" =>
            /\ last.status = "Ok"
            /\ PairValue(registers, last.reg)
                    = (PairValue(last.regs, last.reg) + 65535) % 65536

(* inc and dec as the code performs them: exact where nothing overflows,     *)
(* wrapping in a build without overflow checks                               *)
IncDecWrapUnchecked ==
    ~overflowChecks => C20_IncDecWrap

----------------------------------------------------------------------------
(* Operand resolution on its own: fetch_byte_from_operand and                *)
(* fetch_word_from_operand called on a cpu the host has prepared             *)

FetchProgAddrs == {0, 256}
FetchAddrLows == {105, 255}
FetchAddrHighs == {66, 255}
FetchTargets == {17001}
FetchTargetBytes == {188}
FetchRegs16 == {"PC", "BC"}
FetchByteOperands == {Immediate16, Reg16("BC")}
FetchWordOperands ==
    {Reg16("BC"), Reg16("PC"), Immediate16, Immediate8, Reg8("A"), Reg8("L")}

(* cpu.fetch_word_from_operand(operand) called on its own *)
FetchWordCall(operand) ==
    /\ CanCall
    /\ LET r == fetch_word_from_operand(registers, mem, operand, overflowChecks) IN
       /\ registers' = r.regs
       /\ mem' = r.mem
       /\ last' = [NoLast EXCEPT !.kind = "fetch_word", !.operand = operand,
                                 !.regs = registers, !.mem = mem,
                                 !.status = r.status, !.val = r.val]
       /\ mode' = IF r.status = "Panic" THEN "panicked" ELSE mode
    /\ nops' = nops + 1
    /\ UNCHANGED <<overflowChecks, nseed>>

NextFetch ==
    \/ \E a \in FetchProgAddrs, lo \in FetchAddrLows, hi \in FetchAddrHighs :
            SeedProgram(a, lo, hi)
    \/ \E a \in FetchTargets, v \in FetchTargetBytes : SeedByte(a, v)
    \/ \E p \in FetchRegs16, v \in SeedWords : SeedRegister16(p, v)
    \/ \E operand \in FetchByteOperands : FetchByteCall(operand)
    \/ \E operand \in FetchWordOperands : FetchWordCall(operand)

SpecFetch == Init /\ [][NextFetch]_vars

IsByteFetch(operand) == last.kind = "fetch_byte" /\ last.operand = operand

IsWordFetch == last.kind = "fetch_word"

(* the address the two bytes at the old PC spell, low byte first *)
OldImmediateWord == ByteAt(last.mem, OldPC + 1) * 256 + ByteAt(last.mem, OldPC)

(* every register but PC is as it was before the call *)
OnlyPCMoved ==
    \A f \in (DOMAIN registers) \ {"pc"} : registers[f] = last.regs[f]

(* C21: fetch_byte_from_operand(Immediate16) is rejected: it fails with      *)
(* FetchError in every state, and the failed call changes neither PC, any    *)
(* other register nor memory.                                                *)
C21_Immediate16ByteRejected ==
    IsByteFetch(Immediate16) =>
        /\ last.status = "FetchError"
        /\ registers = last.regs
        /\ mem = last.mem

(* C21 as amended: fetch_byte_from_operand(Immediate16) is not rejected: it  *)
(* never fails with FetchError; it fails only with MemoryOverflow, exactly   *)
(* when one of the two bytes at PC and PC+1 or the address they spell lies   *)
(* outside memory; memory and every register other than PC are unchanged by  *)
(* the call, and PC is unchanged when a byte at PC or PC+1 cannot be read.   *)
C21_Immediate16ByteResolved ==
    IsByteFetch(Immediate16) =>
        /\ last.status \in {"Ok", "MemoryOverflow"}
        /\ last.status = "MemoryOverflow"
                <=> (OldPC + 1 >= MEM_SIZE \/ OldImmediateWord >= MEM_SIZE)
        /\ mem = last.mem
        /\ OnlyPCMoved
        /\ OldPC + 1 >= MEM_SIZE => registers.pc = OldPC

(* the byte at 0x4269 is returned for the operand bytes 0x69, 0x42 *)
C21_Witness ==
    /\ IsByteFetch(Immediate16) /\ last.status = "Ok"
    /\ OldPC = 0 /\ OldImmediateWord = 17001
    /\ last.val = 188

(* C22: fetch_byte_from_operand(Immediate16) reads a little-endian address   *)
(* from the bytes at PC and PC+1, advances PC by exactly 2 and returns the   *)
(* memory byte stored at that address.                                       *)
C22_Immediate16ByteFetch ==
    (IsByteFetch(Immediate16) /\ OldPC + 1 <= 65535) =>
        /\ last.status = "Ok"
        /\ last.val = ByteAt(last.mem, OldImmediateWord)
        /\ registers.pc = OldPC + 2

(* the same, for operand bytes and a target the memory array holds *)
Immediate16ByteFetchInBounds ==
    (IsByteFetch(Immediate16) /\ OldPC + 1 < MEM_SIZE
            /\ OldImmediateWord < MEM_SIZE) =>
        /\ last.status = "Ok"
        /\ last.val = ByteAt(last.mem, OldImmediateWord)
        /\ registers.pc = OldPC + 2

(* C23: fetch_word_from_operand(Reg16(p)) returns the value of p and changes *)
(* no state; fetch_word_from_operand(Immediate16) returns                    *)
(* (mem[PC+1] << 8) | mem[PC] and advances PC by exactly 2, for every PC     *)
(* with both bytes in bounds.                                                *)
C23_WordFetch ==
    /\ (IsWordFetch /\ last.operand.kind = "Reg16") =>
            /\ last.status = "Ok"
            /\ last.val = PairValue(last.regs, last.operand.reg)
            /\ registers = last.regs
            /\ mem = last.mem
    /\ (IsWordFetch /\ last.operand = Immediate16 /\ OldPC + 1 < MEM_SIZE) =>
            /\ last.status = "Ok"
            /\ last.val = ByteAt(last.mem, OldPC + 1) * 256 + ByteAt(last.mem, OldPC)
            /\ registers.pc = OldPC + 2
            /\ OnlyPCMoved
            /\ mem = last.mem

(* the word 0x4269 read from the bytes 0x69, 0x42 at PC = 0x100 *)
C23_Witness ==
    /\ IsWordFetch /\ last.operand = Immediate16 /\ last.status = "Ok"
    /\ OldPC = 256
    /\ ByteAt(last.mem, 256) = 105 /\ ByteAt(last.mem, 257) = 66
    /\ last.val = 17001 /\ registers.pc = 258

(* C24: fetch_word_from_operand fails with FetchError for every Reg8 and     *)
(* Immediate8 operand, and whenever it fails (FetchError, or MemoryOverflow  *)
(* while reading either immediate byte) PC, all other registers and memory   *)
(* are unchanged.                                                            *)
C24_WordFetchFailure ==
    /\ (IsWordFetch /\ last.operand.kind \in {"Reg8", "Immediate8"}) =>
            last.status = "FetchError"
    /\ (IsWordFetch /\ last.status \in {"FetchError", "MemoryOverflow"}) =>
            /\ registers = last.regs
            /\ mem = last.mem

(* the high byte of the immediate lies outside memory: PC stays on 0xFFFE *)
C24_Witness ==
    /\ IsWordFetch /\ last.operand = Immediate16
    /\ last.status = "MemoryOverflow"
    /\ OldPC = 65534 /\ registers.pc = 65534

----------------------------------------------------------------------------
(* The loop of run() *)

(* C25: any failure of a step inside run() is fatal to the run: run()        *)
(* returns that error at once, no later instruction is fetched or executed,  *)
(* and registers and memory are never modified after the failing step.       *)
C25_FailureIsFatal ==
    /\ [](/\ (last.kind = "runstep" /\ last.status \notin {"Ok", "Panic"}) =>
                    mode = "returned"
          /\ mode = "running" =>
                    (last.kind \in {"run", "runstep"} /\ last.status = "Ok"))
    /\ [][mode = "returned" =>
            (mode' = "returned" /\ registers' = registers /\ mem' = mem
                /\ nops' = nops /\ last' = last)]_vars

(* the second step of a run reads the unmatched opcode 0xBC and the run ends *)
C25_Witness ==
    /\ last.kind = "runstep" /\ last.status = "DecodeError"
    /\ last.opcode = 188 /\ OldPC = 1
    /\ mode = "returned" /\ registers.pc = 2

(* C26: run() does nothing except repeat step(): entering run() writes no    *)
(* byte to memory, and during run() a memory byte changes only as the        *)
(* destination of an executed Load.                                          *)
C26_RunOnlySteps ==
    /\ last.kind = "run" => mem = last.mem
    /\ last.kind = "runstep" =>
            \A a \in (DOMAIN mem) \cup (DOMAIN last.mem) :
                ByteAt(mem, a) # ByteAt(last.mem, a) =>
                    /\ last.status = "Ok"
                    /\ last.instr.itype = "Load"
                    /\ last.instr.dest.kind = "Reg16"
                    /\ a = PairValue(last.regs, last.instr.dest.reg)

----------------------------------------------------------------------------
(* The register file: flags, pairs as views, and the frame of inc and dec *)

(* the two 8-bit registers a pair is made of, first-named first *)
PairHalves ==
    [AF |-> <<"A", "F">>, BC |-> <<"B", "C">>,
     DE |-> <<"D", "E">>, HL |-> <<"H", "L">>]

Pairs == DOMAIN PairHalves

C28_PairsAreViews ==
    /\ \A p \in Pairs :
            fetch16(registers, p)
                = fetch8(registers, PairHalves[p][1]) * 256
                    + fetch8(registers, PairHalves[p][2])
    /\ (last.kind = "reg_fetch16" /\ last.reg \in Pairs) =>
            last.val = ByteValue(last.regs, PairHalves[last.reg][1]) * 256
                        + ByteValue(last.regs, PairHalves[last.reg][2])
    /\ last.kind = "reg_write8" =>
            \A p \in Pairs :
                /\ last.reg = PairHalves[p][1] =>
                        fetch16(registers, p)
                            = last.val * 256
                                + ByteValue(last.regs, PairHalves[p][2])
                /\ last.reg = PairHalves[p][2] =>
                        fetch16(registers, p)
                            = ByteValue(last.regs, PairHalves[p][1]) * 256
                                + last.val

(* A is overwritten while F keeps the 0x45 an earlier write of AF gave it *)
C28_Witness ==
    /\ last.kind = "reg_write8" /\ last.reg = "A" /\ last.val = 255
    /\ last.regs.a = 164 /\ last.regs.f = 69
    /\ fetch16(registers, "AF") = 65349

(* every 8-bit register but r, and SP and PC, are as before the call *)
Others8Unchanged(r) ==
    /\ \A q \in Register8 \ {r} :
            ByteValue(registers, q) = ByteValue(last.regs, q)
    /\ registers.sp = last.regs.sp
    /\ registers.pc = last.regs.pc

(* every 16-bit register but p is as before the call *)
Others16Unchanged(p) ==
    \A q \in Register16 \ {p} : PairValue(registers, q) = PairValue(last.regs, q)

(* C29: inc(r) and dec(r) change the identified register by exactly +1 / -1  *)
(* and nothing else: an 8-bit or plain 16-bit register alone changes; a pair *)
(* changes as a 16-bit composite, carry and borrow passing from the low to   *)
(* the high half, and every register outside the pair is unchanged.          *)
C29_IncDecExact ==
    /\ last.kind = "reg_inc8" =>
            /\ last.status = "Ok"
            /\ ByteValue(registers, last.reg)
                    = (ByteValue(last.regs, last.reg) + 1) % 256
            /\ Others8Unchanged(last.reg)
    /\ last.kind = "reg_dec8" =>
            /\ last.status = "Ok"
            /\ ByteValue(registers, last.reg)
                    = (ByteValue(last.regs, last.reg) + 255) % 256
            /\ Others8Unchanged(last.reg)
    /\ last.kind = "reg_inc16" =>
            /\ last.status = "Ok"
            /\ PairValue(registers, last.reg)
                    = (PairValue(last.regs, last.reg) + 1) % 65536
            /\ Others16Unchanged(last.reg)
    /\ last.kind = "reg_dec16" =>
            /\ last.status = "Ok"
            /\ PairValue(registers, last.reg)
                    = (PairValue(last.regs, last.reg) + 65535) % 65536
            /\ Others16Unchanged(last.reg)

(* the same, for calls that do not cross the end of the register's range *)
IncDecExactInRange ==
    /\ (last.kind = "reg_inc8" /\ ByteValue(last.regs, last.reg) < 255) =>
            /\ last.status = "Ok"
            /\ ByteValue(registers, last.reg) = ByteValue(last.regs, last.reg) + 1
            /\ Others8Unchanged(last.reg)
    /\ (last.kind = "reg_dec8" /\ ByteValue(last.regs, last.reg) > 0) =>
            /\ last.status = "Ok"
            /\ ByteValue(registers, last.reg) = ByteValue(last.regs, last.reg) - 1
            /\ Others8Unchanged(last.reg)
    /\ (last.kind = "reg_inc16" /\ PairValue(last.regs, last.reg) < 65535) =>
            /\ last.status = "Ok"
            /\ PairValue(registers, last.reg) = PairValue(last.regs, last.reg) + 1
            /\ Others16Unchanged(last.reg)
    /\ (last.kind = "reg_dec16" /\ PairValue(last.regs, last.reg) > 0) =>
            /\ last.status = "Ok"
            /\ PairValue(registers, last.reg) = PairValue(last.regs, last.reg) - 1
            /\ Others16Unchanged(last.reg)

----------------------------------------------------------------------------
(* The executor on its own: fetch_and_execute(instr) for instructions the    *)
(* decoder produces and for instructions it never produces                   *)

ExecSources == {Reg8("A"), Reg16("BC"), Immediate8, Immediate16}
ExecRegs16 == {"PC", "HL"}

ExecInstrs ==
    {Instruction_load(src, dest, "None") :
        src \in ExecSources, dest \in {Immediate8, Immediate16}}
      \cup {Instruction_load(src, Reg16("HL"), "None") : src \in ExecSources}
      \cup {Instruction_load(Immediate8, Reg8("B"), "None"),
            Instruction_arith8, Instruction_arith16, Instruction_nop}

(* cpu.fetch_and_execute(instr) called on its own *)
ExecuteCall(instr) ==
    /\ CanCall
    /\ LET r == fetch_and_execute(registers, mem, instr) IN
       /\ registers' = r.regs
       /\ mem' = r.mem
       /\ last' = [NoLast EXCEPT !.kind = "execute", !.instr = instr,
                                 !.regs = registers, !.mem = mem,
                                 !.status = r.status]
    /\ nops' = nops + 1
    /\ UNCHANGED <<overflowChecks, mode, nseed>>

NextExecute ==
    \/ \E a \in SeedProgAddrs, op \in SeedEdgeBytes, imm \in SeedImms :
            SeedProgram(a, op, imm)
    \/ \E p \in ExecRegs16, v \in SeedWords : SeedRegister16(p, v)
    \/ \E r \in SeedRegs8, v \in SeedBytes : SeedRegister8(r, v)
    \/ \E instr \in ExecInstrs : ExecuteCall(instr)

SpecExecute == Init /\ [][NextExecute]_vars

IsExecute == last.kind = "execute"

(* C30: a Load whose dest is Immediate8 or Immediate16 (any src), a Load     *)
(* whose dest is Reg16 and whose src is Reg16 or Immediate16, and Arith8 and *)
(* Arith16, fail with UnsupportedInstruction and leave every register and    *)
(* memory unchanged.                                                         *)
C30_UnsupportedWithoutEffect ==
    (/\ IsExecute
     /\ \/ /\ last.instr.itype = "Load"
           /\ last.instr.dest.kind \in {"Immediate8", "Immediate16"}
        \/ /\ last.instr.itype = "Load"
           /\ last.instr.dest.kind = "Reg16"
           /\ last.instr.src.kind \in {"Reg16", "Immediate16"}
        \/ last.instr.itype \in {"Arith8", "Arith16"}) =>
        /\ last.status = "UnsupportedInstruction"
        /\ registers = last.regs
        /\ mem = last.mem

(* a store through HL of the byte BC points at is refused, with A, HL and    *)
(* the program bytes as the host left them                                   *)
C30_Witness ==
    /\ IsExecute /\ last.status = "UnsupportedInstruction"
    /\ last.instr = Instruction_load(Reg16("BC"), Reg16("HL"), "None")
    /\ registers.a = 127 /\ PairValue(registers, "HL") = 256
    /\ mem = last.mem

----------------------------------------------------------------------------
(* step() over every opcode byte: the host places one opcode and the byte    *)
(* after it at address 0, sets registers, and steps                          *)

StepOpcodes == 0..255
StepImms == {6}
StepWords == {1, 2, 65534, 65535}
StepRegs16 == {"HL", "PC"}

NextStep ==
    \/ \E a \in SeedProgAddrs, op \in StepOpcodes, imm \in StepImms :
            SeedProgram(a, op, imm)
    \/ \E a \in SeedAddrs, v \in SeedEdgeBytes : SeedByte(a, v)
    \/ \E p \in StepRegs16, v \in StepWords : SeedRegister16(p, v)
    \/ \E r \in SeedRegs8, v \in SeedBytes : SeedRegister8(r, v)
    \/ StepCall

SpecStep == Init /\ [][NextStep]_vars

(* the opcodes the decoder turns into NoOp: 0x00 and LD r,r with y = z,      *)
(* 0x76 excepted                                                             *)
NopOpcodes ==
    {0} \cup {op \in 64..127 : bits_y(op) = bits_z(op) /\ op # 118}

(* C31: a step over an opcode that decodes to NoOp (0x00 and every x = 1     *)
(* opcode with y = z except 0x76) succeeds and has no effect other than      *)
(* advancing PC by exactly 1: every other register and every memory byte is  *)
(* unchanged.                                                                *)
C31_NoOpStep ==
    StepOn(NopOpcodes) =>
        /\ last.status = "Ok"
        /\ last.instr.itype = "Nop"
        /\ registers.pc = OldPC + 1
        /\ OnlyPCMoved
        /\ mem = last.mem

(* LD H,H (0x64) steps over a cpu whose HL the host has set to 0x0002 *)
C31_Witness ==
    /\ StepOn({100}) /\ last.status = "Ok"
    /\ OldPC = 0 /\ registers.pc = 1
    /\ registers.h = 0 /\ registers.l = 2
    /\ ByteAt(mem, 0) = 100 /\ ByteAt(mem, 1) = 6

----------------------------------------------------------------------------
(* Construction *)

(* nothing has been done to the cpu since Cpu::default() *)
Fresh == nseed = 0 /\ nops = 0 /\ last.kind = "none"

(* C32: a freshly constructed cpu has every register (A, F, B, C, D, E, H,   *)
(* L, SP, PC) equal to 0 and every memory byte equal to 0, so the first step *)
(* fetches its opcode from address 0.                                        *)
C32_FreshCpuIsZero ==
    /\ Fresh =>
            /\ \A r \in Register8 : fetch8(registers, r) = 0
            /\ fetch16(registers, "SP") = 0
            /\ fetch16(registers, "PC") = 0
            /\ \A a \in DOMAIN mem : mem[a] = 0
            /\ read_byte(mem, 0).val = 0
    /\ (nseed = 0 /\ nops = 1 /\ IsStep) =>
            /\ OldPC = 0
            /\ last.opcode = ByteAt(last.mem, 0)
            /\ last.opcode = 0

(* the first step of an untouched cpu reads the zero byte at address 0 *)
C32_Witness ==
    /\ nseed = 0 /\ nops = 1 /\ last.kind = "step"
    /\ OldPC = 0 /\ last.opcode = 0 /\ last.status = "Ok"
    /\ registers.pc = 1

----------------------------------------------------------------------------
(* The operand tables on their own: Operand::from_r_table, from_rp_table and *)
(* from_rp2_table for every u8 index                                         *)

TableIndexes == 0..255

(* the state a lookup leaves behind: the index in val, the operand found *)
LookupLast(kind, i, out) ==
    [NoLast EXCEPT !.kind = kind, !.val = i, !.operand = out.val,
                   !.regs = registers, !.mem = mem,
                   !.status = IF out.ok THEN "Ok" ELSE "DecodeError"]

RTableCall(i) ==
    /\ CanCall
    /\ last' = LookupLast("from_r_table", i, from_r_table(i))
    /\ nops' = nops + 1
    /\ UNCHANGED <<registers, mem, overflowChecks, mode, nseed>>

RPTableCall(i) ==
    /\ CanCall
    /\ last' = LookupLast("from_rp_table", i, from_rp_table(i))
    /\ nops' = nops + 1
    /\ UNCHANGED <<registers, mem, overflowChecks, mode, nseed>>

RP2TableCall(i) ==
    /\ CanCall
    /\ last' = LookupLast("from_rp2_table", i, from_rp2_table(i))
    /\ nops' = nops + 1
    /\ UNCHANGED <<registers, mem, overflowChecks, mode, nseed>>

NextTables ==
    \/ \E i \in TableIndexes : RTableCall(i)
    \/ \E i \in TableIndexes : RPTableCall(i)
    \/ \E i \in TableIndexes : RP2TableCall(i)

SpecTables == Init /\ [][NextTables]_vars

(* the second register-pair table of the specification *)
TableRP2 == <<"BC", "DE", "HL", "AF">>

(* C33: table lookups are bounds-checked: from_r_table(i) returns R[i] for   *)
(* i in 0..7 and an error for every i >= 8; from_rp_table(i) returns         *)
(* [BC,DE,HL,SP][i] and from_rp2_table(i) returns [BC,DE,HL,AF][i] for i in  *)
(* 0..3 and an error for every i >= 4.                                       *)
C33_TableLookups ==
    /\ last.kind = "from_r_table" =>
            IF last.val <= 7
            THEN last.status = "Ok" /\ last.operand = TableR[last.val + 1]
            ELSE last.status = "DecodeError"
    /\ last.kind = "from_rp_table" =>
            IF last.val <= 3
            THEN /\ last.status = "Ok"
                 /\ last.operand = [kind |-> "Reg16", reg |-> TableRP[last.val + 1]]
            ELSE last.status = "DecodeError"
    /\ last.kind = "from_rp2_table" =>
            IF last.val <= 3
            THEN /\ last.status = "Ok"
                 /\ last.operand = [kind |-> "Reg16", reg |-> TableRP2[last.val + 1]]
            ELSE last.status = "DecodeError"

(* from_r_table(69) is an error *)
C33_Witness ==
    /\ last.kind = "from_r_table" /\ last.val = 69
    /\ last.status = "DecodeError"

----------------------------------------------------------------------------
(* The decoder and the state of the cpu *)

----------------------------------------------------------------------------
(* Steps over every opcode *)

(* the step read an opcode and the decoder made a Load of it *)
StepOnLoad == IsStep /\ last.opcode >= 0 /\ last.instr.itype = "Load"

(* C35: decoder and executor agree: for every opcode that decode accepts as  *)
(* a Load, in every register and memory state, executing the decoded         *)
(* instruction never fails with FetchError or UnsupportedInstruction; the    *)
(* only possible failure of such a step is MemoryOverflow.                   *)
C35_DecodedLoadsExecute ==
    StepOnLoad => last.status \in {"Ok", "MemoryOverflow"}

(* LD (HL),d8 with HL = 0xFFFF: the store fails with MemoryOverflow *)
C35_Witness ==
    /\ StepOn({54}) /\ last.instr = Instruction_load(Immediate8, Reg16("HL"), "None")
    /\ PairValue(last.regs, "HL") = 65535
    /\ last.status = "MemoryOverflow"

----------------------------------------------------------------------------
(* Progress of run() *)

ImmediateOpcodes == {op \in 0..63 : bits_z(op) = 6}

(* C37: PC moves only by instruction fetch: every successful step leaves PC  *)
(* at the old PC plus 1 plus the number of immediate bytes consumed (2 in    *)
(* total for LD r,d8 and LD (HL),d8, otherwise 1), and no decodable          *)
(* instruction has PC as load destination or as inc/dec target.              *)
C37_PCMovesByFetch ==
    /\ (IsStep /\ last.status = "Ok") =>
            registers.pc
                = OldPC + (IF last.opcode \in ImmediateOpcodes THEN 2 ELSE 1)
    /\ (IsStep /\ last.opcode >= 0 /\ last.status # "DecodeError") =>
            /\ last.instr.dest.reg # "PC"
            /\ last.instr.itype \in {"Load", "Inc", "Dec"} =>
                    last.instr.dest.kind \in {"Reg8", "Reg16"}

(* LD A,d8 (0x3E): A takes the immediate and PC ends two bytes on *)
C37_Witness ==
    /\ StepOn({62}) /\ last.status = "Ok"
    /\ OldPC = 0 /\ registers.pc = 2 /\ registers.a = 6

(* C38: a failing step is not rolled back but is otherwise free of side      *)
(* effects: when step() returns an error every memory byte and every         *)
(* register except PC is as before the step, while PC has been advanced past *)
(* the opcode, and past the immediate byte if one was consumed before the    *)
(* failure.                                                                  *)
C38_FailingStep ==
    (IsStep /\ last.status \notin {"Ok", "Panic"}) =>
        /\ mem = last.mem
        /\ OnlyPCMoved
        /\ registers.pc
                = IF last.opcode \in ImmediateOpcodes /\ OldPC + 1 < MEM_SIZE
                  THEN OldPC + 2
                  ELSE (OldPC + 1) % 65536

(* LD B,d8 at 0xFFFE: the immediate cannot be read, PC rests behind the      *)
(* opcode and B is untouched                                                 *)
C38_Witness ==
    /\ StepOn({6}) /\ last.status = "MemoryOverflow"
    /\ OldPC = 65534 /\ registers.pc = 65535
    /\ registers.b = 0

(* C39: a successful step of a Load without followup changes, besides PC,    *)
(* exactly its destination: either the one destination 8-bit register (all   *)
(* other registers and all memory unchanged) or the one memory byte at the   *)
(* address held in the destination pair (all registers other than PC and all *)
(* other memory bytes unchanged); SP and F are never changed by a Load.      *)
C39_LoadFrame ==
    (StepOnLoad /\ last.status = "Ok" /\ last.instr.followup = "None") =>
        /\ registers.sp = last.regs.sp
        /\ registers.f = last.regs.f
        /\ last.instr.dest.kind \in {"Reg8", "Reg16"}
        /\ last.instr.dest.kind = "Reg8" =>
                /\ mem = last.mem
                /\ \A q \in Register8 \ {last.instr.dest.reg} :
                        ByteValue(registers, q) = ByteValue(last.regs, q)
        /\ last.instr.dest.kind = "Reg16" =>
                /\ OnlyPCMoved
                /\ \A a \in ((DOMAIN mem) \cup (DOMAIN last.mem))
                                \ {PairValue(last.regs, last.instr.dest.reg)} :
                        ByteAt(mem, a) = ByteAt(last.mem, a)

(* LD (HL),d8 with HL = 2: the byte at 2 takes the immediate, the program    *)
(* bytes and HL stay                                                         *)
C39_Witness ==
    /\ StepOn({54}) /\ last.status = "Ok"
    /\ PairValue(registers, "HL") = 2
    /\ ByteAt(last.mem, 2) = 0 /\ ByteAt(mem, 2) = 6
    /\ ByteAt(mem, 0) = 54 /\ ByteAt(mem, 1) = 6
    /\ registers.pc = 2

----------------------------------------------------------------------------
(* Two steps in a row *)

(* the last step stored a byte through a pair *)
StoreStep ==
    /\ IsStep /\ last.status = "Ok"
    /\ last.instr.itype = "Load" /\ last.instr.dest.kind = "Reg16"

(* where the last step stored, and what *)
StoreAddr == PairValue(last.regs, last.instr.dest.reg)

StoredByte ==
    IF last.instr.src.kind = "Reg8" THEN ByteValue(last.regs, last.instr.src.reg)
    ELSE ByteAt(last.mem, OldPC + 1)

(* the opcodes LD r,d8 with an 8-bit register as destination *)
LoadImmediateOpcodes == {op \in ImmediateOpcodes : bits_y(op) # 6}

(* C40: steps are sequential, nothing is fetched ahead: if step k stores     *)
(* byte v at address a and step k+1 begins with PC = a, step k+1 fetches and *)
(* decodes v, not the byte that was at a before step k; likewise an          *)
(* immediate byte overwritten by step k is read by step k+1 with its new     *)
(* value.                                                                    *)
C40_NoPrefetch ==
    [][(StoreStep /\ nops' = nops + 1 /\ last'.kind = "step") =>
            /\ registers.pc = StoreAddr => last'.opcode = StoredByte
            /\ (/\ registers.pc + 1 = StoreAddr
                /\ last'.opcode \in LoadImmediateOpcodes
                /\ last'.status = "Ok") =>
                    ByteValue(registers', TableR[bits_y(last'.opcode) + 1].reg)
                        = StoredByte]_vars

(* after LD (HL),L with HL = 1 has put 0x01 over the byte 0x06 at address 1, *)
(* the second step reads the opcode 0x01 there                               *)
C40_Witness ==
    /\ nops = 2 /\ StepOn({1}) /\ OldPC = 1
    /\ last.status = "DecodeError"
    /\ ByteAt(mem, 0) = 117 /\ ByteAt(mem, 1) = 1
    /\ PairValue(registers, "HL") = 1

====
